---- MODULE Spec2Model ----
(***************************************************************************)
(* Model of peak_finder::PeakFinderComponent                               *)
(* (src/peak_finder/src/peak_finder_component.cpp).                        *)
(*                                                                         *)
(* One thread per accepted goal runs execute().  The thread's position is  *)
(* th[g].pc; a label "Lnnn" is the source line the thread is about to run. *)
(* The goal handle, the elevation service, tf and the Navigator are the    *)
(* thread's environment.  rclcpp_action's ServerGoalHandle is modelled by  *)
(* its goal state machine: succeed() and abort() are accepted while the    *)
(* goal is executing or canceling, canceled() only while it is canceling;  *)
(* a call that is not accepted throws (rclcpp::exceptions::RCLError, a     *)
(* std::exception).  navigator.h is not part of the sources at hand: the   *)
(* Navigator operators follow the interface the component uses and the     *)
(* NavigationClient contract.                                              *)
(***************************************************************************)
EXTENDS Integers, Sequences, FiniteSets

\* ------------------------------------------------------------------ bounds
\* Largest elevation the service reports (elevations are 0..MaxElev).
MaxElev == 1
\* Largest number of navigation requests that complete with success.
MaxMoves == 1
\* Number of goal handles (goal ids are 1..MaxGoals).
MaxGoals == 2

\* ------------------------------------------------------- program constants
\* std::generate_n(..., 8, generate_next_pose)
RingSize == 8
\* "double current_elevation;" declared without a value
Unset == -1

Goals == 1..MaxGoals
Elev == 0..MaxElev
\* Sample slot 0 is the robot's own position, slots 1..8 are the ring.
Slots == 0..RingSize

VARIABLES
    ok,         \* rclcpp::ok()
    field,      \* terrain: the elevations the service may report per slot
    toSubmit,   \* goal submissions the action clients will still make
    robotPos,   \* where the robot is: the number of completed moves
    nav,        \* the shared Navigator (navigator_)
    th,         \* th[g]: the execute() thread of goal g, pc and locals
    handle,     \* handle[g]: the goal handle of goal g
    hist        \* hist[g]: what execute() has done for goal g so far

vars == <<ok, field, toSubmit, robotPos, nav, th, handle, hist>>

\* ------------------------------------------------------------- positions
\* An Eigen::Vector2d in the map frame, kept symbolically: <<p, 0>> is where
\* the robot stands after p completed moves, <<p, k>> (k in 1..8) is the point
\* at look_distance from it at angle (k-1)*M_PI_4.
NoPosition == <<>>

\* GenerateRing around the position the goal started from, not the one
\* looked up in the iteration.
GenerateRingAtStart(robot_position) ==
    [k \in 1..RingSize |-> <<0, k>>]

\* generate_next_pose, called 8 times by std::generate_n: the angle starts
\* at 0.0 and grows by M_PI_4 per call, around the captured robot_position.
GenerateRing(robot_position) ==
    [k \in 1..RingSize |-> <<robot_position[1], k>>]

\* ------------------------------------------------------------- the thread
\* The locals of execute(), not yet assigned.
ThreadAt(label) ==
    [pc |-> label, robot_position |-> NoPosition, current_elevation |-> Unset,
     sample_positions |-> <<>>, elevations |-> <<>>, goal_position |-> NoPosition]

\* The slot the next (or the pending) SampleElevation call of the iteration
\* is for: line 116 first, then the loop of line 138 in order.
Slot(t) ==
    IF t.current_elevation = Unset THEN 0 ELSE Len(t.elevations) + 1

\* ------------------------------------------------------------ goal handle
NoHandle == [outcome |-> "none", cancelReq |-> FALSE, calls |-> <<>>]

NoHist ==
    [elevReqs |-> 0, navReqs |-> 0, poseLookups |-> 0, navCancels |-> 0,
     preFailed |-> FALSE, pollSawCancel |-> FALSE,
     requests |-> <<>>, elevResps |-> 0, sampleRefused |-> FALSE,
     lookupThrew |-> FALSE, navFailed |-> FALSE, failSeenCanceling |-> FALSE]

\* goal_handle->is_canceling()
is_canceling(g) ==
    handle[g].cancelReq /\ handle[g].outcome = "none"

Outcome(kind) ==
    CASE kind = "succeed" -> "Succeeded"
      [] kind = "abort" -> "Aborted"
      [] kind = "canceled" -> "Canceled"

\* Whether the goal state machine accepts the terminal call.
Accepted(h, kind) ==
    /\ h.outcome = "none"
    /\ (kind = "canceled" => h.cancelReq)

\* goal_handle->succeed / abort / canceled (std::make_shared<Result>())
Invoke(h, kind) ==
    [h EXCEPT !.calls = Append(@, kind),
              !.outcome = IF Accepted(h, kind) THEN Outcome(kind) ELSE @]

\* AfterCall with the return after the call left out: the loop goes on.
AfterCallNoReturn(h, kind) ==
    IF Accepted(h, kind) THEN "L108" ELSE "L209"

\* Where execute() goes after a terminal call made inside the try block:
\* every such call is followed by a return; a call that throws is caught
\* at line 206.
AfterCall(h, kind) ==
    IF Accepted(h, kind) THEN "done" ELSE "L209"

\* The same for a call outside the try block (lines 85, 94, 102) and for the
\* one inside the handler (line 209): a throw leaves execute().
AfterCallNoTry(h, kind) ==
    IF Accepted(h, kind) THEN "done" ELSE "escaped"

\* ---------------------------------------------------------------- navigator
IdleNav == [state |-> "idle", target |-> NoPosition, owner |-> 0]

\* navigator_.wait_for_completion(100ms): true once the request has ended
wait_for_completion ==
    nav.state # "active"

\* navigator_.succeeded()
succeeded ==
    nav.state = "succeeded"

\* The Navigator once its request has ended: only the result is kept.
Ended(result) ==
    [state |-> result, target |-> NoPosition, owner |-> 0]

\* navigator_.cancel(): stops the outstanding request, a no-op otherwise
cancel ==
    IF nav.state = "active" THEN Ended("canceled") ELSE nav

\* navigator_.go_to_pose(goal_pose) when the server accepts the request
go_to_pose(g, goal_position) ==
    [state |-> "active", target |-> goal_position, owner |-> g]

\* ------------------------------------------------------------ the decision
\* ElemLess as <=: the scan then keeps the last of the largest elements.
ElemLessOrEqual(a, b) ==
    a <= b

\* operator< as std::max_element applies it to two elevations
ElemLess(a, b) ==
    a < b

\* std::max_element(elevations.begin(), elevations.end()): one forward scan
\* that keeps the first of the largest elements; the result is its index.
RECURSIVE MaxElementFrom(_, _, _)
MaxElementFrom(elevations, i, largest) ==
    IF i > Len(elevations) THEN largest
    ELSE MaxElementFrom(elevations, i + 1,
                        IF ElemLess(elevations[largest], elevations[i]) THEN i ELSE largest)

max_element(elevations) ==
    MaxElementFrom(elevations, 2, 1)

\* AtPeak with the comparison turned around.
AtPeakReversed(max_elevation, current_elevation) ==
    max_elevation >= current_elevation

\* AtPeak with < for <=: a ring as high as the robot's position is no peak.
AtPeakStrict(max_elevation, current_elevation) ==
    max_elevation < current_elevation

\* if (*max_elevation_iter <= current_elevation)
AtPeak(max_elevation, current_elevation) ==
    max_elevation <= current_elevation

\* ---------------------------------------------------------------- terrains
\* Any elevation anywhere.
AnyField == [s \in Slots |-> Elev]
\* The robot stands on the highest point.
PeakField == [s \in Slots |-> IF s = 0 THEN {MaxElev} ELSE {0}]
\* The ground rises towards 90 and 135 degrees.
SlopeField == [s \in Slots |-> IF s \in {3, 4} THEN {MaxElev} ELSE {0}]

\* ---------------------------------------------------------------- initial
InitWith(fields, submissions) ==
    /\ ok = TRUE
    /\ field \in fields
    /\ toSubmit = submissions
    /\ robotPos = 0
    /\ nav = IdleNav
    /\ th = [g \in Goals |-> ThreadAt("idle")]
    /\ handle = [g \in Goals |-> NoHandle]
    /\ hist = [g \in Goals |-> NoHist]

\* One goal, any terrain: the single-active-goal operation the design assumes.
Init == InitWith({AnyField}, 1)

\* Every goal handle is used, on a fixed terrain.
InitMulti == InitWith({PeakField, SlopeField}, MaxGoals)

\* One goal on a fixed terrain.
InitFair == InitWith({PeakField, SlopeField}, 1)

\* ------------------------------------------------------------ environment
\* handle_goal answers ACCEPT_AND_EXECUTE for every request and
\* handle_accepted starts a detached thread running execute() for it.
handle_accepted(g) ==
    /\ toSubmit > 0
    /\ th[g].pc = "idle"
    /\ \A h \in Goals : h < g => th[h].pc # "idle"
    /\ toSubmit' = toSubmit - 1
    /\ th' = [th EXCEPT ![g] = ThreadAt("L81")]
    /\ UNCHANGED <<ok, field, robotPos, nav, handle, hist>>

\* handle_cancel answers ACCEPT: the goal is canceling from then on.
handle_cancel(g) ==
    /\ th[g].pc # "idle"
    /\ handle[g].outcome = "none"
    /\ ~handle[g].cancelReq
    /\ handle' = [handle EXCEPT ![g].cancelReq = TRUE]
    /\ UNCHANGED <<ok, field, toSubmit, robotPos, nav, th, hist>>

\* rclcpp::shutdown(): rclcpp::ok() is false from then on.
Shutdown ==
    /\ ok
    /\ ok' = FALSE
    /\ UNCHANGED <<field, toSubmit, robotPos, nav, th, handle, hist>>

\* The navigation server ends the outstanding request.  A success moves the
\* robot to the target.
NavComplete ==
    /\ nav.state = "active"
    /\ \/ /\ robotPos < MaxMoves
          /\ nav' = Ended("succeeded")
          /\ robotPos' = robotPos + 1
          /\ UNCHANGED hist
       \/ /\ nav' = Ended("failed")
          /\ hist' = [hist EXCEPT ![nav.owner].navFailed = TRUE]
          /\ UNCHANGED robotPos
    /\ UNCHANGED <<ok, field, toSubmit, th, handle>>

\* ------------------------------------------------------------- execute()
\* Line 81: elevation_client_->service_is_ready()
CheckService(g) ==
    /\ th[g].pc = "L81"
    /\ \E ready \in BOOLEAN :
          /\ th' = [th EXCEPT ![g].pc = IF ready THEN "L90" ELSE "L85"]
          /\ hist' = [hist EXCEPT ![g].preFailed = ~ready]
    /\ UNCHANGED <<ok, field, toSubmit, robotPos, nav, handle>>

\* Line 90: tf_buffer_.canTransform("map", "base_footprint", ...)
CheckTransform(g) ==
    /\ th[g].pc = "L90"
    /\ \E can \in BOOLEAN :
          /\ th' = [th EXCEPT ![g].pc = IF can THEN "L98" ELSE "L94"]
          /\ hist' = [hist EXCEPT ![g].preFailed = ~can]
    /\ UNCHANGED <<ok, field, toSubmit, robotPos, nav, handle>>

\* CheckNavServer without the return of line 103: the loop is entered.
CheckNavServerNoReturn(g) ==
    /\ th[g].pc = "L98"
    /\ \E available \in BOOLEAN :
          /\ th' = [th EXCEPT ![g].pc = "L108"]
          /\ hist' = [hist EXCEPT ![g].preFailed = ~available]
    /\ UNCHANGED <<ok, field, toSubmit, robotPos, nav, handle>>

\* Line 98: navigator_.server_available()
CheckNavServer(g) ==
    /\ th[g].pc = "L98"
    /\ \E available \in BOOLEAN :
          /\ th' = [th EXCEPT ![g].pc = IF available THEN "L108" ELSE "L102"]
          /\ hist' = [hist EXCEPT ![g].preFailed = ~available]
    /\ UNCHANGED <<ok, field, toSubmit, robotPos, nav, handle>>

\* Lines 85, 94, 102: abort and return, before the try block.
AbortPrecondition(g) ==
    /\ th[g].pc \in {"L85", "L94", "L102"}
    /\ handle' = [handle EXCEPT ![g] = Invoke(@, "abort")]
    /\ th' = [th EXCEPT ![g] = ThreadAt(AfterCallNoTry(handle[g], "abort"))]
    /\ UNCHANGED <<ok, field, toSubmit, robotPos, nav, hist>>

\* LoopTop with the loop's condition reduced to rclcpp::ok().
LoopTopIgnoresCancel(g) ==
    /\ th[g].pc = "L108"
    /\ th' = [th EXCEPT ![g] = ThreadAt(IF ok THEN "L111" ELSE "L204")]
    /\ UNCHANGED <<ok, field, toSubmit, robotPos, nav, handle, hist>>

\* Line 108: while (rclcpp::ok() && !goal_handle->is_canceling()); the body's
\* locals are new in every iteration.  When the condition fails the loop is
\* left for line 204.
LoopTop(g) ==
    /\ th[g].pc = "L108"
    /\ th' = [th EXCEPT ![g] =
                 ThreadAt(IF ok /\ ~is_canceling(g) THEN "L111" ELSE "L204")]
    /\ UNCHANGED <<ok, field, toSubmit, robotPos, nav, handle, hist>>

\* GetRobotPosition called outside the try block: its exception leaves
\* execute().
GetRobotPositionUncaught(g) ==
    /\ th[g].pc = "L111"
    /\ \E found \in BOOLEAN :
          /\ th' = [th EXCEPT ![g].pc = IF found THEN "L227" ELSE "escaped",
                              ![g].robot_position =
                                  IF found THEN <<robotPos, 0>> ELSE NoPosition]
          /\ hist' = [hist EXCEPT ![g].poseLookups = @ + 1,
                                  ![g].lookupThrew = ~found]
    /\ UNCHANGED <<ok, field, toSubmit, robotPos, nav, handle>>

\* Line 111 and lines 213-219: lookupTransform gives the robot's position
\* or throws (tf2::TransformException), which line 206 catches.
GetRobotPosition(g) ==
    /\ th[g].pc = "L111"
    /\ \E found \in BOOLEAN :
          /\ th' = [th EXCEPT ![g].pc = IF found THEN "L227" ELSE "L209",
                              ![g].robot_position =
                                  IF found THEN <<robotPos, 0>> ELSE NoPosition]
          /\ hist' = [hist EXCEPT ![g].poseLookups = @ + 1,
                                  ![g].lookupThrew = ~found]
    /\ UNCHANGED <<ok, field, toSubmit, robotPos, nav, handle>>

\* The position execute() passes to SampleElevation: robot_position at
\* line 116, the elements of sample_positions in order at lines 138-141.
SamplePosition(t) ==
    IF Slot(t) = 0 THEN t.robot_position ELSE t.sample_positions[Slot(t)]

\* Lines 223-227 of SampleElevation: the request carries the position's x
\* and y; async_send_request.
SendSampleRequest(g) ==
    /\ th[g].pc = "L227"
    /\ hist' = [hist EXCEPT ![g].elevReqs = @ + 1,
                            ![g].requests = Append(@, SamplePosition(th[g]))]
    /\ th' = [th EXCEPT ![g].pc = "L239"]
    /\ UNCHANGED <<ok, field, toSubmit, robotPos, nav, handle>>

\* SampleWaitTick without the look at rclcpp::ok() and is_canceling(): the
\* single long wait the comment of lines 232-238 describes, with no timeout.
SampleWaitTickNoCheck(g) ==
    /\ th[g].pc = "L239"
    /\ UNCHANGED vars

\* SampleWaitTick giving up at the first timeout, whatever the goal's state.
SampleWaitTickGivesUp(g) ==
    /\ th[g].pc = "L239"
    /\ th' = [th EXCEPT ![g].pc = "L243"]
    /\ UNCHANGED <<ok, field, toSubmit, robotPos, nav, handle, hist>>

\* Lines 239-246 when wait_for(100ms) times out: the request is unanswered
\* and the thread looks at rclcpp::ok() and is_canceling().
SampleWaitTick(g) ==
    /\ th[g].pc = "L239"
    /\ th' = [th EXCEPT ![g].pc = IF ~ok \/ is_canceling(g) THEN "L243" ELSE "L239"]
    /\ UNCHANGED <<ok, field, toSubmit, robotPos, nav, handle, hist>>

\* Lines 243-244: canceled(), return false; execute() returns (118, 142).
SampleCanceled(g) ==
    /\ th[g].pc = "L243"
    /\ handle' = [handle EXCEPT ![g] = Invoke(@, "canceled")]
    /\ th' = [th EXCEPT ![g] = ThreadAt(AfterCall(handle[g], "canceled"))]
    /\ UNCHANGED <<ok, field, toSubmit, robotPos, nav, hist>>

\* AfterSample leaving the ring's loop one sample early.
AfterSampleShort(slot) ==
    IF slot >= RingSize - 1 THEN "L155" ELSE "L227"

\* Where execute() continues after SampleElevation returned true for the
\* slot: the next ring sample, or line 155 after the last one.
AfterSample(slot) ==
    IF slot = RingSize THEN "L155" ELSE "L227"

\* What the thread holds after SampleElevation stored the elevation of the
\* slot: line 116 assigns current_elevation, and lines 123-133 then build
\* the ring around robot_position; line 144 appends a ring elevation.
StoreSample(t, slot, elevation) ==
    IF slot = 0
    THEN [t EXCEPT !.pc = AfterSample(slot),
                   !.current_elevation = elevation,
                   !.sample_positions = GenerateRing(t.robot_position)]
    ELSE [t EXCEPT !.pc = AfterSample(slot),
                   !.elevations = Append(@, elevation)]

\* The service answers and wait_for returns ready (lines 239, 247-258):
\* success=false leads to line 253, otherwise the elevation is stored.
SampleResponse(g) ==
    /\ th[g].pc = "L239"
    /\ \E success \in BOOLEAN, elevation \in field[Slot(th[g])] :
          /\ th' = [th EXCEPT ![g] =
                    IF success THEN StoreSample(@, Slot(@), elevation)
                    ELSE [@ EXCEPT !.pc = "L253"]]
          /\ hist' = [hist EXCEPT ![g].elevResps = @ + 1,
                                  ![g].sampleRefused = ~success]
    /\ UNCHANGED <<ok, field, toSubmit, robotPos, nav, handle>>

\* SampleFailed with the result of SampleElevation ignored by execute():
\* abort() is called and the sampling goes on.
SampleFailedIgnored(g) ==
    /\ th[g].pc = "L253"
    /\ handle' = [handle EXCEPT ![g] = Invoke(@, "abort")]
    /\ th' = [th EXCEPT ![g] = StoreSample(@, Slot(@), 0)]
    /\ UNCHANGED <<ok, field, toSubmit, robotPos, nav, hist>>

\* Lines 253-254: abort(), return false; execute() returns (118, 142).
SampleFailed(g) ==
    /\ th[g].pc = "L253"
    /\ handle' = [handle EXCEPT ![g] = Invoke(@, "abort")]
    /\ th' = [th EXCEPT ![g] = ThreadAt(AfterCall(handle[g], "abort"))]
    /\ UNCHANGED <<ok, field, toSubmit, robotPos, nav, hist>>

\* Lines 155-167: the largest ring elevation against the current one.
Decide(g) ==
    /\ th[g].pc = "L155"
    /\ LET t == th[g]
           max_elevation_iter == max_element(t.elevations)
       IN  th' = [th EXCEPT ![g] =
                     IF AtPeak(t.elevations[max_elevation_iter], t.current_elevation)
                     THEN [t EXCEPT !.pc = "L162"]
                     ELSE [t EXCEPT !.pc = "L180",
                                    !.goal_position = t.sample_positions[max_elevation_iter]]]
    /\ UNCHANGED <<ok, field, toSubmit, robotPos, nav, handle, hist>>

\* Lines 162-163: succeed(), return.
Succeed(g) ==
    /\ th[g].pc = "L162"
    /\ handle' = [handle EXCEPT ![g] = Invoke(@, "succeed")]
    /\ th' = [th EXCEPT ![g] = ThreadAt(AfterCall(handle[g], "succeed"))]
    /\ UNCHANGED <<ok, field, toSubmit, robotPos, nav, hist>>

\* GoToPose with the result of go_to_pose ignored: the poll follows.
GoToPoseUnchecked(g) ==
    /\ th[g].pc = "L180"
    /\ hist' = [hist EXCEPT ![g].navReqs = @ + 1]
    /\ \E accepted \in BOOLEAN :
          /\ nav' = IF accepted THEN go_to_pose(g, th[g].goal_position) ELSE nav
          /\ th' = [th EXCEPT ![g].pc = "L187"]
    /\ UNCHANGED <<ok, field, toSubmit, robotPos, handle>>

\* Line 180: navigator_.go_to_pose(goal_pose); the server accepts or rejects.
GoToPose(g) ==
    /\ th[g].pc = "L180"
    /\ hist' = [hist EXCEPT ![g].navReqs = @ + 1]
    /\ \E accepted \in BOOLEAN :
          /\ nav' = IF accepted THEN go_to_pose(g, th[g].goal_position) ELSE nav
          /\ th' = [th EXCEPT ![g].pc = IF accepted THEN "L187" ELSE "L183"]
    /\ UNCHANGED <<ok, field, toSubmit, robotPos, handle>>

\* Lines 183-184: abort(), return.
NavRejected(g) ==
    /\ th[g].pc = "L183"
    /\ handle' = [handle EXCEPT ![g] = Invoke(@, "abort")]
    /\ th' = [th EXCEPT ![g] = ThreadAt(AfterCall(handle[g], "abort"))]
    /\ UNCHANGED <<ok, field, toSubmit, robotPos, nav, hist>>

\* Lines 187-189: wait_for_completion(100ms); when it is true the loop is
\* left for line 197, otherwise the thread looks at rclcpp::ok() and
\* is_canceling() and polls again or goes on to line 191.
NavPoll(g) ==
    /\ th[g].pc = "L187"
    /\ IF wait_for_completion
       THEN /\ th' = [th EXCEPT ![g].pc = "L197"]
            /\ UNCHANGED hist
       ELSE /\ th' = [th EXCEPT ![g].pc =
                         IF ~ok \/ is_canceling(g) THEN "L191" ELSE "L187"]
            /\ hist' = [hist EXCEPT ![g].pollSawCancel = is_canceling(g)]
    /\ UNCHANGED <<ok, field, toSubmit, robotPos, nav, handle>>

\* NavCancel without the call of navigator_.cancel().
NavCancelSkipped(g) ==
    /\ th[g].pc = "L191"
    /\ th' = [th EXCEPT ![g].pc = "L192"]
    /\ UNCHANGED <<ok, field, toSubmit, robotPos, nav, handle, hist>>

\* Line 191: navigator_.cancel()
NavCancel(g) ==
    /\ th[g].pc = "L191"
    /\ nav' = cancel
    /\ hist' = [hist EXCEPT ![g].navCancels = @ + 1]
    /\ th' = [th EXCEPT ![g].pc = "L192"]
    /\ UNCHANGED <<ok, field, toSubmit, robotPos, handle>>

\* Lines 192-193: canceled(), return.
PollCanceled(g) ==
    /\ th[g].pc = "L192"
    /\ handle' = [handle EXCEPT ![g] = Invoke(@, "canceled")]
    /\ th' = [th EXCEPT ![g] = ThreadAt(AfterCall(handle[g], "canceled"))]
    /\ UNCHANGED <<ok, field, toSubmit, robotPos, nav, hist>>

\* NavResult without the test of navigator_.succeeded(): the loop goes on.
NavResultIgnored(g) ==
    /\ th[g].pc = "L197"
    /\ th' = [th EXCEPT ![g].pc = "L108"]
    /\ UNCHANGED <<ok, field, toSubmit, robotPos, nav, handle, hist>>

\* Line 197: if (!navigator_.succeeded()) ... else back to the loop's top.
NavResult(g) ==
    /\ th[g].pc = "L197"
    /\ th' = [th EXCEPT ![g].pc = IF succeeded THEN "L108" ELSE "L200"]
    /\ hist' = [hist EXCEPT ![g].failSeenCanceling =
                                @ \/ (~succeeded /\ is_canceling(g))]
    /\ UNCHANGED <<ok, field, toSubmit, robotPos, nav, handle>>

\* Lines 200-201: abort(), return.
NavFailed(g) ==
    /\ th[g].pc = "L200"
    /\ handle' = [handle EXCEPT ![g] = Invoke(@, "abort")]
    /\ th' = [th EXCEPT ![g] = ThreadAt(AfterCall(handle[g], "abort"))]
    /\ UNCHANGED <<ok, field, toSubmit, robotPos, nav, hist>>

\* Line 204: canceled() once the loop's condition has failed.
LoopExitCanceled(g) ==
    /\ th[g].pc = "L204"
    /\ handle' = [handle EXCEPT ![g] = Invoke(@, "canceled")]
    /\ th' = [th EXCEPT ![g] = ThreadAt(AfterCall(handle[g], "canceled"))]
    /\ UNCHANGED <<ok, field, toSubmit, robotPos, nav, hist>>

\* Lines 206-210: catch (const std::exception&): abort().
CatchAbort(g) ==
    /\ th[g].pc = "L209"
    /\ handle' = [handle EXCEPT ![g] = Invoke(@, "abort")]
    /\ th' = [th EXCEPT ![g] = ThreadAt(AfterCallNoTry(handle[g], "abort"))]
    /\ UNCHANGED <<ok, field, toSubmit, robotPos, nav, hist>>

\* The steps the thread of goal g takes by itself.
execute(g) ==
    \/ CheckService(g)
    \/ CheckTransform(g)
    \/ CheckNavServer(g)
    \/ AbortPrecondition(g)
    \/ LoopTop(g)
    \/ GetRobotPosition(g)
    \/ SendSampleRequest(g)
    \/ SampleWaitTick(g)
    \/ SampleCanceled(g)
    \/ SampleFailed(g)
    \/ Decide(g)
    \/ Succeed(g)
    \/ GoToPose(g)
    \/ NavRejected(g)
    \/ NavPoll(g)
    \/ NavCancel(g)
    \/ PollCanceled(g)
    \/ NavResult(g)
    \/ NavFailed(g)
    \/ LoopExitCanceled(g)
    \/ CatchAbort(g)

Next ==
    \/ \E g \in Goals : handle_accepted(g)
    \/ \E g \in Goals : handle_cancel(g)
    \/ Shutdown
    \/ NavComplete
    \/ \E g \in Goals : SampleResponse(g)
    \/ \E g \in Goals : execute(g)

Spec == Init /\ [][Next]_vars

SpecMulti == InitMulti /\ [][Next]_vars

\* The scheduler runs every thread; the service and the navigation server
\* owe no answer.
FairSpec == InitFair /\ [][Next]_vars /\ \A g \in Goals : WF_vars(execute(g))

\* ------------------------------------------------------------------ claims
\* Helpers of the properties below; none of them is used by the model.
Range(s) ==
    {s[i] : i \in DOMAIN s}

\* The largest element of a non-empty sequence, as a set maximum.
SetMax(s) ==
    CHOOSE m \in Range(s) : \A x \in Range(s) : x <= m

\* The lowest angular index (0..7) whose ring elevation is the maximum.
LowestArgMax(s) ==
    CHOOSE i \in 0..(Len(s) - 1) :
        /\ s[i + 1] = SetMax(s)
        /\ \A j \in 0..(i - 1) : s[j + 1] < SetMax(s)

\* The ring position at angular index i (angle i*45 degrees) around position p.
RingPoint(p, i) ==
    <<p[1], i + 1>>

Terminal(g) ==
    handle[g].outcome # "none"

\* C1: at most one terminal outcome call (succeed, abort or canceled) is made
\* on the goal handle during execute().
C1_AtMostOneTerminalCall ==
    \A g \in Goals : Len(handle[g].calls) <= 1

\* The second half of C1: once a goal is Succeeded, Aborted or Canceled its
\* outcome never changes.
OutcomeAbsorbing ==
    [][\A g \in Goals : Terminal(g) => handle'[g].outcome = handle[g].outcome]_vars

\* C2: after a goal's terminal outcome has been set, execute() issues no
\* further elevation sample request, no further go_to_pose request and no
\* pose lookup for that goal.
C2_NoRequestAfterOutcome ==
    [][\A g \in Goals :
          Terminal(g) =>
              /\ hist'[g].elevReqs = hist[g].elevReqs
              /\ hist'[g].navReqs = hist[g].navReqs
              /\ hist'[g].poseLookups = hist[g].poseLookups]_vars

\* A goal has its outcome after a full iteration and a navigation request.
C2_Witness ==
    \E g \in Goals :
        /\ Terminal(g)
        /\ th[g].pc = "done"
        /\ hist[g].navReqs > 0
        /\ hist[g].elevReqs > RingSize

\* C3: if one of the three start-up preconditions fails, the goal ends
\* Aborted without entering the loop: the thread only goes on to its abort
\* and return, and no elevation request, navigation request or pose lookup
\* is ever made for the goal.
C3_PreconditionAbort ==
    \A g \in Goals :
        hist[g].preFailed =>
            /\ th[g].pc \in {"L85", "L94", "L102", "done"}
            /\ hist[g].elevReqs = 0
            /\ hist[g].navReqs = 0
            /\ hist[g].poseLookups = 0
            /\ (th[g].pc = "done" => handle[g].outcome = "Aborted")

\* A goal whose precondition failed has returned, Aborted.
C3_Witness ==
    \E g \in Goals :
        /\ hist[g].preFailed
        /\ th[g].pc = "done"
        /\ handle[g].outcome = "Aborted"

\* C4: when the 8 ring elevations of an iteration are all there and their
\* maximum is <= the current elevation, the thread's next steps are the
\* decision and succeed(): it makes no navigation request and returns with
\* the goal Succeeded.
C4_PeakSucceeds ==
    [][\A g \in Goals :
          (/\ Len(th[g].elevations) = RingSize
           /\ SetMax(th[g].elevations) <= th[g].current_elevation) =>
              /\ hist'[g].navReqs = hist[g].navReqs
              /\ th'[g].pc \in {"L155", "L162", "done"}
              /\ (th'[g].pc = "done" => handle'[g].outcome = "Succeeded")]_vars

\* The decision has found the peak with the ring's maximum equal to the
\* current elevation.
C4_Witness ==
    \E g \in Goals :
        /\ th[g].pc = "L162"
        /\ Len(th[g].elevations) = RingSize
        /\ SetMax(th[g].elevations) = th[g].current_elevation

\* C5: the target of a navigation request is the ring position with the
\* lowest angular index among those whose elevation is the maximum of the 8
\* ring elevations, both as execute() computes it and as the Navigator
\* holds it.
C5_TargetIsFirstMaximum ==
    \A g \in Goals :
        /\ (th[g].pc = "L180" \/ th[g].goal_position # NoPosition) =>
               th[g].goal_position =
                   RingPoint(th[g].robot_position, LowestArgMax(th[g].elevations))
        /\ (nav.state = "active" /\ nav.owner = g) =>
               nav.target = RingPoint(th[g].robot_position, LowestArgMax(th[g].elevations))

\* A navigation request is outstanding for a ring whose maximum occurs
\* twice, the first time not at index 0.
C5_Witness ==
    \E g \in Goals :
        /\ nav.state = "active"
        /\ nav.owner = g
        /\ LowestArgMax(th[g].elevations) > 0
        /\ \E j \in 1..RingSize :
              /\ j > LowestArgMax(th[g].elevations) + 1
              /\ th[g].elevations[j] = SetMax(th[g].elevations)

\* C6: when the navigation poll sees the cancellation request before the
\* request has completed, navigator cancel() has been invoked exactly once
\* for the goal when canceled() is about to be called, and the goal ends
\* Canceled with that single cancel().
C6_CancelDuringPoll ==
    \A g \in Goals :
        hist[g].pollSawCancel =>
            /\ th[g].pc \in {"L191", "L192", "done"}
            /\ (th[g].pc = "L191" => hist[g].navCancels = 0 /\ ~Terminal(g))
            /\ (th[g].pc = "L192" => hist[g].navCancels = 1 /\ ~Terminal(g))
            /\ (th[g].pc = "done" =>
                    /\ hist[g].navCancels = 1
                    /\ handle[g].outcome = "Canceled")

\* A goal canceled during the navigation poll has returned.
C6_Witness ==
    \E g \in Goals :
        /\ hist[g].pollSawCancel
        /\ th[g].pc = "done"
        /\ handle[g].outcome = "Canceled"
        /\ hist[g].navCancels = 1

\* C7: the wait for the first elevation response is bounded: when no
\* response comes and no cancellation is requested, the goal eventually
\* ends Aborted with zero navigation requests.
C7_SampleWaitTimesOut ==
    \A g \in Goals :
        (th[g].pc = "L239" /\ Slot(th[g]) = 0 /\ hist[g].navReqs = 0)
            ~> \/ handle[g].cancelReq
               \/ th[g].pc = "L253"
               \/ th[g].current_elevation # Unset
               \/ (handle[g].outcome = "Aborted" /\ hist[g].navReqs = 0)

C9_CanceledOnlyOnRequest ==
    \A g \in Goals :
        (\E i \in DOMAIN handle[g].calls : handle[g].calls[i] = "canceled") =>
            handle[g].cancelReq

\* C10: at no time are two goals of the controller running execute().
C10_OneActiveGoal ==
    Cardinality({g \in Goals : th[g].pc \notin {"idle", "done", "escaped"}}) <= 1

\* C11: go_to_pose is never called on the shared navigator while an earlier
\* accepted navigation request is still outstanding.
C11_OneOutstandingNavigation ==
    [][\A g \in Goals :
          hist'[g].navReqs > hist[g].navReqs => nav.state # "active"]_vars

\* C12: when the pose lookup at the top of an iteration throws, the
\* exception is caught in execute(): the thread goes to the handler and
\* returns with the goal Aborted, and no elevation or navigation request is
\* made after the failure.  No exception (the lookup's, or the one of a
\* refused terminal call) leaves execute().
C12_LookupFailureAborts ==
    [][\A g \in Goals :
          /\ th'[g].pc # "escaped"
          /\ hist'[g].lookupThrew =>
              /\ th'[g].pc \in {"L209", "done"}
              /\ (th'[g].pc = "done" => handle'[g].outcome = "Aborted")
              /\ (hist[g].lookupThrew =>
                      /\ hist'[g].elevReqs = hist[g].elevReqs
                      /\ hist'[g].navReqs = hist[g].navReqs)]_vars

\* The lookup of the second iteration threw and the goal has returned,
\* Aborted.
C12_Witness ==
    \E g \in Goals :
        /\ hist[g].lookupThrew
        /\ hist[g].poseLookups = 2
        /\ th[g].pc = "done"
        /\ handle[g].outcome = "Aborted"

\* C13: when the service answers a sample request with success=false, the
\* thread goes on to abort() and returns with the goal Aborted; no further
\* elevation request and no navigation request is made.
C13_RefusedSampleAborts ==
    [][\A g \in Goals :
          hist'[g].sampleRefused =>
              /\ th'[g].pc \in {"L253", "done"}
              /\ (th'[g].pc = "done" => handle'[g].outcome = "Aborted")
              /\ (hist[g].sampleRefused =>
                      /\ hist'[g].elevReqs = hist[g].elevReqs
                      /\ hist'[g].navReqs = hist[g].navReqs)]_vars

\* A ring sample (not the first, not the last) was refused and the goal has
\* returned, Aborted, with no navigation request.
C13_Witness ==
    \E g \in Goals :
        /\ hist[g].sampleRefused
        /\ hist[g].elevReqs \in 3..RingSize
        /\ hist[g].navReqs = 0
        /\ th[g].pc = "done"
        /\ handle[g].outcome = "Aborted"

\* The number of SampleElevation calls of one iteration.
SamplesPerIteration ==
    RingSize + 1

\* C14: within one goal the steps of an iteration are sequential and
\* ordered.  The requests go out for the current position and then for the
\* ring positions in index order; at most one request is unanswered; a
\* request is sent only after the iteration's pose lookup and after the
\* previous request was answered with success; a pose lookup is made only
\* after the previous iteration's 9 samples and navigation request; a
\* navigation request is made only after all 9 samples of the iteration were
\* answered with success, at most once per iteration.
C14_SequentialIteration ==
    [][\A g \in Goals :
          LET h == hist[g]
              n == hist'[g]
          IN  /\ \A k \in 1..Len(n.requests) :
                    n.requests[k][2] = (k - 1) % SamplesPerIteration
              /\ n.elevReqs - n.elevResps \in {0, 1}
              /\ n.poseLookups > h.poseLookups =>
                     /\ h.elevReqs = SamplesPerIteration * h.poseLookups
                     /\ h.navReqs = h.poseLookups
              /\ n.elevReqs > h.elevReqs =>
                     /\ h.elevResps = h.elevReqs
                     /\ ~h.sampleRefused /\ ~h.lookupThrew
                     /\ h.elevReqs < SamplesPerIteration * h.poseLookups
              /\ n.navReqs > h.navReqs =>
                     /\ h.elevReqs = SamplesPerIteration * h.poseLookups
                     /\ h.elevResps = h.elevReqs
                     /\ ~h.sampleRefused
                     /\ h.navReqs = h.poseLookups - 1]_vars

\* The navigation request of a second iteration has been made.
C14_Witness ==
    \E g \in Goals :
        /\ hist[g].navReqs = 2
        /\ hist[g].poseLookups = 2
        /\ hist[g].elevReqs = 2 * SamplesPerIteration

\* The threads positions at which the iteration's samples are being taken
\* or have just been evaluated.
SamplingLabels ==
    {"L227", "L239", "L243", "L253", "L155", "L162", "L180", "L183"}

\* C15: the ring of an iteration has exactly 8 positions, at angular indices
\* 0..7 in this order, around the robot position looked up in the same
\* iteration, which is where the robot is; the requests of iteration j are
\* for that position and its ring; when the iteration's lookup is made
\* (line 111) nothing of an earlier iteration is held.
C15_RingAroundFreshPosition ==
    \A g \in Goals :
        LET t == th[g]
        IN  /\ t.sample_positions # <<>> =>
                  /\ Len(t.sample_positions) = RingSize
                  /\ \A k \in 1..RingSize :
                        t.sample_positions[k] = RingPoint(t.robot_position, k - 1)
            /\ t.pc \in SamplingLabels => t.robot_position = <<robotPos, 0>>
            /\ t.pc = "L111" => t = ThreadAt("L111")
            /\ \A k \in 1..Len(hist[g].requests) :
                  hist[g].requests[k] =
                      <<(k - 1) \div SamplesPerIteration, (k - 1) % SamplesPerIteration>>

\* The ring of the iteration after a successful navigation is there.
C15_Witness ==
    \E g \in Goals :
        /\ robotPos = 1
        /\ th[g].robot_position = <<1, 0>>
        /\ Len(th[g].sample_positions) = RingSize
        /\ Len(hist[g].requests) > SamplesPerIteration + 1

\* C16: when the navigation server rejects the request, the thread goes to
\* line 183 and from there returns with the goal Aborted: it does not poll,
\* does not call navigator cancel() and sends no further elevation request.
C16_RejectedNavigationAborts ==
    [][\A g \in Goals :
          /\ (hist'[g].navReqs > hist[g].navReqs /\ ~(nav'.state = "active" /\ nav'.owner = g)) =>
                 th'[g].pc = "L183"
          /\ th[g].pc = "L183" =>
                 /\ th'[g].pc \in {"L183", "done"}
                 /\ (th'[g].pc = "done" => handle'[g].outcome = "Aborted")
                 /\ hist'[g].navCancels = hist[g].navCancels
                 /\ hist'[g].elevReqs = hist[g].elevReqs
                 /\ hist'[g].navReqs = hist[g].navReqs]_vars

\* The first navigation request was rejected and the goal has returned,
\* Aborted, without a call of navigator cancel().
C16_Witness ==
    \E g \in Goals :
        /\ th[g].pc = "done"
        /\ handle[g].outcome = "Aborted"
        /\ hist[g].navReqs = 1
        /\ hist[g].navCancels = 0
        /\ nav.state = "idle"

\* The thread positions between the navigation request and its result.
NavigationLabels ==
    {"L180", "L183", "L187", "L191", "L192", "L197", "L200"}

\* C17 as stated: a goal whose accepted navigation request completed with a
\* failure result ends Aborted.
C17_FailedNavigationAborts ==
    \A g \in Goals :
        (hist[g].navFailed /\ th[g].pc = "done") => handle[g].outcome = "Aborted"

\* C17 as amended: when the poll has seen the navigation request completed
\* (line 197) and the result is a failure, the thread goes to abort() and
\* returns with the goal Aborted, whether or not a cancellation was
\* requested; the loop goes on to its next iteration only from line 197 with
\* the result a success.
C17_ObservedFailureAborts ==
    [][\A g \in Goals :
          /\ (th[g].pc = "L197" /\ ~succeeded) => th'[g].pc \in {"L197", "L200"}
          /\ th[g].pc = "L200" =>
                 /\ th'[g].pc \in {"L200", "done"}
                 /\ (th'[g].pc = "done" => handle'[g].outcome = "Aborted")
          /\ (th[g].pc \in NavigationLabels /\ th'[g].pc \notin NavigationLabels) =>
                 \/ th'[g].pc \in {"done", "L209"}
                 \/ (th[g].pc = "L197" /\ succeeded /\ th'[g].pc = "L108")]_vars

\* A goal whose cancellation was requested before the poll saw the failed
\* navigation has returned, Aborted.
C17_Witness ==
    \E g \in Goals :
        /\ hist[g].navFailed
        /\ hist[g].failSeenCanceling
        /\ hist[g].navCancels = 0
        /\ th[g].pc = "done"
        /\ handle[g].outcome = "Aborted"

\* C18: when a cancellation request is pending at the loop-top check, the
\* thread leaves the loop for line 204 and returns with the goal Canceled,
\* with no pose lookup, no elevation request, no navigation request and no
\* call of navigator cancel() on the way.
C18_CancelAtLoopTop ==
    [][\A g \in Goals :
          /\ (th[g].pc = "L108" /\ is_canceling(g)) => th'[g].pc \in {"L108", "L204"}
          /\ (th[g].pc = "L204" /\ is_canceling(g)) =>
                 /\ th'[g].pc \in {"L204", "done"}
                 /\ (th'[g].pc = "done" => handle'[g].outcome = "Canceled")
                 /\ hist'[g] = hist[g]]_vars

\* A goal canceled at the top of its second iteration has returned.
C18_Witness ==
    \E g \in Goals :
        /\ th[g].pc = "done"
        /\ handle[g].outcome = "Canceled"
        /\ hist[g].navReqs = 1
        /\ hist[g].poseLookups = 1
        /\ hist[g].navCancels = 0

\* C19: once a cancellation has been requested for an executing goal, the
\* goal eventually has a terminal outcome, whether or not the elevation
\* service and the navigation server ever answer.
C19_CancelLeadsToOutcome ==
    \A g \in Goals : handle[g].cancelReq ~> Terminal(g)

\* A canceling goal got its outcome while its elevation request was
\* unanswered.
C19_Witness ==
    \E g \in Goals :
        /\ handle[g].cancelReq
        /\ Terminal(g)
        /\ hist[g].elevReqs > hist[g].elevResps

\* C20: succeed() gives the goal its outcome only at line 162 of an
\* iteration in which the current-position sample and all 8 ring samples
\* were answered with success and the largest ring elevation is <= the
\* current elevation, with no navigation request of the goal outstanding.
C20_SucceededOnlyAtPeak ==
    [][\A g \in Goals :
          (handle[g].outcome = "none" /\ handle'[g].outcome = "Succeeded") =>
              /\ th[g].pc = "L162"
              /\ th[g].current_elevation # Unset
              /\ Len(th[g].elevations) = RingSize
              /\ SetMax(th[g].elevations) <= th[g].current_elevation
              /\ hist[g].elevReqs = SamplesPerIteration * hist[g].poseLookups
              /\ hist[g].elevResps = hist[g].elevReqs
              /\ ~hist[g].sampleRefused
              /\ ~(nav.state = "active" /\ nav.owner = g)]_vars

\* A goal has Succeeded in its second iteration, after one navigation.
C20_Witness ==
    \E g \in Goals :
        /\ handle[g].outcome = "Succeeded"
        /\ hist[g].navReqs = 1
        /\ hist[g].poseLookups = 2

====
